---------------------------- MODULE Spec2Model ----------------------------
(***************************************************************************)
(* A model of llm/embeddings.py: the Collection class over a database with *)
(* the two tables `collections` and `embeddings`.                          *)
(*                                                                         *)
(* The program is single-threaded and synchronous, so every public method  *)
(* is one atomic action.  Python values are represented as follows:        *)
(*   - Optional[str]: a string, with None the sentinel string None (no     *)
(*     string of the model's domains equals it); SQL NULL likewise;        *)
(*   - Optional[int] (_id): a number, rowids start at 1 and NoId is None;  *)
(*   - an EmbeddingModel object: a record of its model_id and batch_size   *)
(*     (batch_size None is 0: its only reader is `batch_size or max`);     *)
(*   - Optional[dict] (metadata): << >> for None, <<d>> for the dict d,    *)
(*     a dict being a set of <<key, value>> pairs;                         *)
(*   - a vector: a pair of integers.                                       *)
(* Fields named `by`, and the variables hist, okIds and last, are history  *)
(* variables: they record what happened and no operation reads them.       *)
(***************************************************************************)
EXTENDS Integers, Sequences, FiniteSets, TLC

VARIABLES
    migrated,     \* db["collections"].exists(): the migrations were applied
    collections,  \* the collections table: row i has id i (no row is ever deleted)
    embeddings,   \* the embeddings table: a set of rows
    objs,         \* the Collection objects constructed so far
    hist,         \* per object: constructor arguments, rows inserted, id() results
    okIds,        \* per collection name: the item ids whose insert succeeded
    call,         \* the last embed_multi_with_metadata call: its input and log
    last          \* the last operation, its object and its result

vars == <<migrated, collections, embeddings, objs, hist, okIds, call, last>>

-----------------------------------------------------------------------------
(* Bounds of the model *)

MaxObjs == 2
MaxRows == 3
MaxEntries == 3
MaxBatch == 2
MaxFail == 2
MaxNumber == 2

(* Collection.max_batch_size *)
max_batch_size == 100

-----------------------------------------------------------------------------
(* Values *)

None == "<None>"
NoId == 0

Truthy(s) == s # None /\ s # ""

NoModel == [model_id |-> None, batch_size |-> 0]

Names == {"c1", "c2"}

(* The registry behind llm.get_embedding_model: the registered identifiers *)
(* and the batch_size attribute each registered model declares.            *)
Registered == {"m1", "m2"}

get_embedding_model(model_id) ==
    [model_id |-> model_id, batch_size |-> IF model_id = "m2" THEN 2 ELSE 0]

(* EmbeddingModel.embed: a deterministic vector per model and text *)
ModelEmbed(m, text) ==
    LET v == CASE text = "x" -> <<1, 0>>
               [] text = "y" -> <<0, 1>>
               [] text = "z" -> <<1, 1>>
               [] OTHER      -> <<-1, 0>>
    IN  IF m.model_id = "m1" THEN v ELSE <<v[2], v[1] + v[2]>>

(* llm.encode / llm.decode: a vector to a blob of packed floats and back *)
encode(v) == [f32 |-> v]
decode(b) == b.f32

(* json.dumps / json.loads over the dicts of the model *)
Dicts == {{}, {<<"k", 1>>}}
dumps(d) == IF d = {} THEN "{}" ELSE "{\"k\": 1}"
loads(s) == CHOOSE d \in Dicts : dumps(d) = s

Min(S) == CHOOSE x \in S : \A y \in S : x <= y

(* The sequences over S of length at most n *)
SeqsUpTo(S, n) == UNION {[1..k -> S] : k \in 0..n}

-----------------------------------------------------------------------------
(* Collection.model(): the result, and the object with its cache updated *)

model(o) ==
    IF o._model # NoModel
    THEN [ok |-> TRUE, model |-> o._model, obj |-> o]
    ELSE IF ~Truthy(o._model_id) \/ o._model_id \notin Registered
    THEN [ok |-> FALSE, model |-> NoModel, obj |-> o]
    ELSE LET m == get_embedding_model(o._model_id)
         IN  [ok |-> TRUE, model |-> m, obj |-> [o EXCEPT !._model = m]]

(* rows_where("name = ?"): the ids of the rows with this name *)
(* (faulty variant: the lookup finds no row)                   *)
rows_where_name_none(colls, name) == {}

rows_where_name(colls, name) == {i \in 1..Len(colls) : colls[i].name = name}

(* What id() takes from the row it found: its id, and its model when the  *)
(* object has no model_id (faulty variant: the model always)               *)
AdoptRow_always(o, i, row) == [o EXCEPT !._id = i, !._model_id = row.model]

AdoptRow(o, i, row) ==
    [o EXCEPT !._id = i,
              !._model_id = IF o._model_id = None THEN row.model ELSE @]

(* Collection.id(): the value returned, the object, the collections table  *)
(* and the number of rows inserted.  ok is FALSE when model() raised.      *)
id(o, colls) ==
    IF o._id # NoId
    THEN [ok |-> TRUE, val |-> o._id, obj |-> o, colls |-> colls, ins |-> 0]
    ELSE LET rows == rows_where_name(colls, o.name)
         IN  IF rows # {}
             THEN LET i == Min(rows)
                  IN  [ok |-> TRUE, val |-> i, obj |-> AdoptRow(o, i, colls[i]),
                       colls |-> colls, ins |-> 0]
             ELSE LET m == model(o)
                      pk == Len(colls) + 1
                  IN  IF ~m.ok
                      THEN [ok |-> FALSE, val |-> NoId, obj |-> o,
                            colls |-> colls, ins |-> 0]
                      ELSE [ok |-> TRUE, val |-> pk,
                            obj |-> [m.obj EXCEPT !._id = pk],
                            colls |-> Append(colls, [name |-> o.name,
                                                     model |-> m.model.model_id]),
                            ins |-> 1]

(* Collection.exists(): select 1 from collections where name = ? *)
exists(o, colls) == \E i \in 1..Len(colls) : colls[i].name = o.name

(* Collection.count(): the rows whose collection_id is the id the subquery *)
(* finds for the name (no row when the subquery finds none).               *)
(* (faulty variant: every row of the table)                                *)
count_all(o, colls, embs) == Cardinality(embs)

count(o, colls, embs) ==
    LET sub == rows_where_name(colls, o.name)
    IN  IF sub = {} THEN 0
        ELSE Cardinality({r \in embs : r.collection_id = Min(sub)})

(* The composite primary key (collection_id, id) of the embeddings table *)
(* against the rows stored and among the rows of one insert              *)
Key(r) == <<r.collection_id, r.id>>

PkConflict(embs, rows) ==
    LET new == {Key(rows[i]) : i \in 1..Len(rows)}
    IN  \/ new \cap {Key(e) : e \in embs} # {}
        \/ Cardinality(new) < Len(rows)

(* The row embed and embed_multi_with_metadata build for one item *)
Row(cid, itemId, vector, text, metadata, store, m) ==
    [collection_id |-> cid,
     id |-> itemId,
     embedding |-> encode(vector),
     content |-> IF store THEN text ELSE None,
     metadata |-> IF metadata # << >> /\ metadata[1] # {}
                  THEN dumps(metadata[1]) ELSE None,
     by |-> m.model_id]

-----------------------------------------------------------------------------
(* embed_multi_with_metadata *)

(* min(max_batch_size, model().batch_size or max_batch_size) *)
(* (faulty variant: without the min)                         *)
BatchSize_nocap(m) == IF m.batch_size # 0 THEN m.batch_size ELSE max_batch_size

BatchSize(m) ==
    LET b == IF m.batch_size # 0 THEN m.batch_size ELSE max_batch_size
    IN  IF max_batch_size < b THEN max_batch_size ELSE b

(* list(islice(iterator, batch_size)): the positions of the next entries *)
islice(entries, pos, n) ==
    [i \in 1..(IF Len(entries) - pos < n THEN Len(entries) - pos ELSE n)
        |-> pos + i]

(* EmbeddingModel.embed_multi: one vector per text, in the order submitted *)
ModelEmbedMulti(m, texts) == [i \in 1..Len(texts) |-> ModelEmbed(m, texts[i])]

(* zip(embeddings, batch): the i-th vector with the i-th entry *)
(* (faulty variant: the vectors taken from the end)            *)
zip_reversed(vectors, batch) ==
    [i \in 1..(IF Len(vectors) < Len(batch) THEN Len(vectors) ELSE Len(batch))
        |-> <<vectors[Len(vectors) + 1 - i], batch[i]>>]

zip(vectors, batch) ==
    [i \in 1..(IF Len(vectors) < Len(batch) THEN Len(vectors) ELSE Len(batch))
        |-> <<vectors[i], batch[i]>>]

(* with self.db.conn: insert_all(...): every row of the batch, or none and *)
(* an error when a key of the batch is already stored or occurs twice      *)
(* (faulty variant: the rows before the first conflict stay)               *)
RECURSIVE insert_all_partial(_, _)
insert_all_partial(embs, rows) ==
    IF rows = << >> THEN [ok |-> TRUE, embs |-> embs]
    ELSE IF PkConflict(embs, <<Head(rows)>>) THEN [ok |-> FALSE, embs |-> embs]
    ELSE insert_all_partial(embs \cup {Head(rows)}, Tail(rows))

insert_all(embs, rows) ==
    IF PkConflict(embs, rows)
    THEN [ok |-> FALSE, embs |-> embs]
    ELSE [ok |-> TRUE, embs |-> embs \cup {rows[i] : i \in 1..Len(rows)}]

(* The rows of one batch: one per (vector, entry position) pair *)
BatchRows(st, pairs) ==
    [i \in 1..Len(pairs) |->
        Row(st.cid, st.entries[pairs[i][2]][1], pairs[i][1],
            st.entries[pairs[i][2]][2], st.entries[pairs[i][2]][3],
            st.store, st.model)]

(* The while loop: st.pos entries are consumed, st.embs is the table,      *)
(* st.embedded logs the chunks handed to the model, st.inserted the chunks *)
(* handed to insert_all; the model raises on its call number st.failAt.    *)
RECURSIVE BatchLoop(_)
BatchInsert(st, batch, r) ==
    IF ~r.ok
    THEN [st EXCEPT !.inserted = Append(@, batch), !.embs = r.embs,
                    !.status = "error"]
    ELSE BatchLoop([st EXCEPT !.inserted = Append(@, batch), !.embs = r.embs,
                              !.pos = @ + Len(batch)])

BatchEmbed(st, batch) ==
    IF st.failAt = Len(st.embedded) + 1
    THEN [st EXCEPT !.embedded = Append(@, batch), !.status = "error"]
    ELSE BatchInsert([st EXCEPT !.embedded = Append(@, batch)], batch,
            insert_all(st.embs,
                BatchRows(st,
                    zip(ModelEmbedMulti(st.model,
                            [i \in 1..Len(batch) |-> st.entries[batch[i]][2]]),
                        batch))))

BatchStep(st, batch) ==
    IF batch = << >> THEN [st EXCEPT !.status = "done"]
    ELSE BatchEmbed(st, batch)

BatchLoop(st) == BatchStep(st, islice(st.entries, st.pos, st.batch_size))

(* The call: the batch size (model() may raise), id(), then the loop;      *)
(* islice raises on a negative batch size before anything is embedded.     *)
BatchStart(st, ok) ==
    IF ~ok \/ st.batch_size < 0 THEN [st EXCEPT !.status = "error"]
    ELSE BatchLoop(st)

BatchCall(o, m, r, embs, entries, store, failAt) ==
    BatchStart([status |-> "running", obj |-> o, entries |-> entries,
                store |-> store, failAt |-> failAt,
                batch_size |-> BatchSize(m.model), cid |-> r.val,
                model |-> m.model, pos |-> 0, embs |-> embs, before |-> embs,
                embedded |-> << >>, inserted |-> << >>],
               m.ok /\ r.ok)

embed_multi_with_metadata(o, ob, colls, embs, entries, store, failAt) ==
    BatchCall(o, model(ob), id(model(ob).obj, colls), embs, entries, store,
              failAt)

-----------------------------------------------------------------------------
(* Similarity search *)

(* llm.cosine_similarity, up to its order: the signed square of the cosine *)
(* as a fraction n/d with d > 0, and 0 when either vector is zero.  Two    *)
(* scores compare as the cosines do.                                       *)
cosine_similarity(a, b) ==
    LET dot == a[1] * b[1] + a[2] * b[2]
        na == a[1] * a[1] + a[2] * a[2]
        nb == b[1] * b[1] + b[2] * b[2]
    IN  IF na = 0 \/ nb = 0 THEN [n |-> 0, d |-> 1]
        ELSE [n |-> IF dot < 0 THEN -(dot * dot) ELSE dot * dot, d |-> na * nb]

ScoreGE(s, t) == s.n * t.d >= t.n * s.d

(* distance_score: decode the stored blob and score it against the query *)
distance_score(other_encoded, vector) ==
    cosine_similarity(decode(other_encoded), vector)

(* str(self.id()) as the query argument, and the number the INTEGER       *)
(* column collection_id is compared with                                   *)
str(n) == ToString(n)
IntegerAffinity(s, colls) == CHOOSE k \in 0..Len(colls) : ToString(k) = s

(* where collection_id = ? [and id != ?]: the second only for a truthy     *)
(* skip_id                                                                 *)
Where(embs, cidArg, skip_id, colls) ==
    {r \in embs :
        /\ r.collection_id = IntegerAffinity(cidArg, colls)
        /\ Truthy(skip_id) => r.id # skip_id}

(* order by score desc limit number: every order the query may return the  *)
(* rows in (rows of equal score in any order); a negative limit is none    *)
RECURSIVE OrderByLimit(_, _, _)
OrderByLimit(rows, vector, number) ==
    IF rows = {} \/ number = 0 THEN {<< >>}
    ELSE UNION {
           {<<r>> \o t : t \in OrderByLimit(rows \ {r}, vector, number - 1)} :
             r \in {x \in rows : \A y \in rows :
                       ScoreGE(distance_score(x.embedding, vector),
                               distance_score(y.embedding, vector))}}

(* The Entry built from a row of the query's result *)
Entry(r, vector) ==
    [id |-> r.id,
     score |-> distance_score(r.embedding, vector),
     content |-> r.content,
     metadata |-> IF Truthy(r.metadata) THEN <<loads(r.metadata)>> ELSE << >>]

(* Collection.similar_by_vector: the lists of entries it may return *)
similar_by_vector(o, colls, embs, vector, number, skip_id) ==
    {[i \in 1..Len(rs) |-> Entry(rs[i], vector)] :
        rs \in OrderByLimit(Where(embs, str(id(o, colls).val), skip_id, colls),
                            vector, number)}

(* Collection.similar_by_id: no result (ValueError) when the id is not     *)
(* stored in the collection                                                *)
similar_by_id(o, colls, embs, itemId, number) ==
    LET matches == {r \in embs :
                       r.collection_id = id(o, colls).val /\ r.id = itemId}
    IN  IF matches = {} THEN {}
        ELSE similar_by_vector(o, colls, embs,
                               decode((CHOOSE r \in matches : TRUE).embedding),
                               number, itemId)

-----------------------------------------------------------------------------
(* The state before any Collection is constructed: an empty database *)

IdleCall ==
    [status |-> "idle", obj |-> 0, entries |-> << >>, store |-> FALSE,
     failAt |-> 0, batch_size |-> 0, cid |-> NoId, model |-> NoModel,
     pos |-> 0, embs |-> {}, before |-> {}, embedded |-> << >>,
     inserted |-> << >>]

Init ==
    /\ migrated = FALSE
    /\ collections = << >>
    /\ embeddings = {}
    /\ objs = << >>
    /\ hist = << >>
    /\ okIds = [n \in Names |-> {}]
    /\ call = IdleCall
    /\ last = [op |-> "none", obj |-> 0, ok |-> TRUE, val |-> 0]

(* Collection.__init__ *)
Construct(name, m, mid) ==
    /\ Len(objs) < MaxObjs
    /\ IF m # NoModel /\ Truthy(mid) /\ m.model_id # mid
       THEN /\ last' = [op |-> "Collection", obj |-> 0, ok |-> FALSE, val |-> NoId]
            /\ UNCHANGED <<migrated, collections, objs, hist>>
       ELSE LET o == [name |-> name, _model |-> m, _model_id |-> mid, _id |-> NoId]
                r == id(o, collections)
            IN  /\ migrated' = TRUE
                /\ collections' = r.colls
                /\ IF r.ok
                   THEN /\ objs' = Append(objs, r.obj)
                        /\ hist' = Append(hist,
                              [model |-> m, model_id |-> mid,
                               found |-> \E i \in 1..Len(collections) :
                                            collections[i].name = name,
                               inserts |-> r.ins, ids |-> {r.val}])
                        /\ last' = [op |-> "Collection", obj |-> Len(objs) + 1,
                                    ok |-> TRUE, val |-> r.val]
                   ELSE /\ UNCHANGED <<objs, hist>>
                        /\ last' = [op |-> "Collection", obj |-> 0,
                                    ok |-> FALSE, val |-> NoId]
    /\ UNCHANGED <<embeddings, okIds, call>>

(* A call of id() on a constructed object *)
CallId(o) ==
    LET r == id(objs[o], collections)
    IN  /\ r.ok
        /\ migrated' = TRUE
        /\ collections' = r.colls
        /\ objs' = [objs EXCEPT ![o] = r.obj]
        /\ hist' = [hist EXCEPT ![o].inserts = @ + r.ins,
                                ![o].ids = @ \cup {r.val}]
        /\ last' = [op |-> "id", obj |-> o, ok |-> TRUE, val |-> r.val]
        /\ UNCHANGED <<embeddings, okIds, call>>

(* A call of model() on a constructed object *)
CallModel(o) ==
    LET r == model(objs[o])
    IN  /\ objs' = [objs EXCEPT ![o] = r.obj]
        /\ last' = [op |-> "model", obj |-> o, ok |-> r.ok, val |-> r.model]
        /\ UNCHANGED <<migrated, collections, embeddings, hist, okIds, call>>

(* A call of exists() *)
CallExists(o) ==
    /\ migrated
    /\ last' = [op |-> "exists", obj |-> o, ok |-> TRUE,
                val |-> exists(objs[o], collections)]
    /\ UNCHANGED <<migrated, collections, embeddings, objs, hist, okIds, call>>

(* A call of count() *)
CallCount(o) ==
    /\ migrated
    /\ last' = [op |-> "count", obj |-> o, ok |-> TRUE,
                val |-> count(objs[o], collections, embeddings)]
    /\ UNCHANGED <<migrated, collections, embeddings, objs, hist, okIds, call>>

(* Collection.embed: model() and embed first, then id(), then the insert,  *)
(* which raises on a duplicate (collection_id, id).                        *)
Embed(o, itemId, text, metadata, store) ==
    LET m == model(objs[o])
    IN  /\ Cardinality(embeddings) < MaxRows
        /\ IF ~m.ok
           THEN /\ last' = [op |-> "embed", obj |-> o, ok |-> FALSE, val |-> itemId]
                /\ UNCHANGED <<migrated, collections, embeddings, objs, hist, okIds>>
           ELSE LET r == id(m.obj, collections)
                    row == Row(r.val, itemId, ModelEmbed(m.model, text), text,
                               metadata, store, m.model)
                    dup == PkConflict(embeddings, <<row>>)
                IN  /\ migrated' = TRUE
                    /\ collections' = r.colls
                    /\ objs' = [objs EXCEPT ![o] = r.obj]
                    /\ hist' = [hist EXCEPT ![o].inserts = @ + r.ins,
                                            ![o].ids = @ \cup {r.val}]
                    /\ embeddings' = IF dup THEN embeddings
                                     ELSE embeddings \cup {row}
                    /\ okIds' = IF dup THEN okIds
                                ELSE [okIds EXCEPT ![objs[o].name] = @ \cup {itemId}]
                    /\ last' = [op |-> "embed", obj |-> o, ok |-> ~dup,
                                val |-> itemId]
        /\ UNCHANGED call

(* A call of embed_multi_with_metadata on a constructed object *)
BulkCall(o, m, r, st, n) ==
    /\ call' = st
    /\ embeddings' = st.embs
    /\ objs' = [objs EXCEPT ![o] = IF m.ok /\ r.ok THEN r.obj ELSE m.obj]
    /\ collections' = IF m.ok THEN r.colls ELSE collections
    /\ migrated' = (migrated \/ m.ok)
    /\ hist' = IF m.ok /\ r.ok
               THEN [hist EXCEPT ![o].inserts = @ + r.ins,
                                 ![o].ids = @ \cup {r.val}]
               ELSE hist
    /\ okIds' = [okIds EXCEPT ![objs[o].name] =
                    @ \cup {e.id : e \in st.embs \ embeddings}]
    /\ last' = [op |-> "embed_multi_with_metadata", obj |-> o,
                ok |-> st.status = "done", val |-> n]

EmbedMultiWithMetadata(o, entries, store, failAt) ==
    BulkCall(o, model(objs[o]), id(model(objs[o]).obj, collections),
             embed_multi_with_metadata(o, objs[o], collections, embeddings,
                                       entries, store, failAt),
             Len(entries))

(* embed_multi: the same over (id, text) pairs, with no metadata *)
EmbedMulti(o, pairs, store, failAt) ==
    /\ EmbedMultiWithMetadata(o,
          [i \in 1..Len(pairs) |-> <<pairs[i][1], pairs[i][2], << >> >>],
          store, failAt)

(* A call of similar_by_vector *)
SimilarByVector(o, vector, number, skip_id) ==
    \E res \in similar_by_vector(objs[o], collections, embeddings, vector,
                                 number, skip_id) :
        /\ last' = [op |-> "similar_by_vector", obj |-> o, ok |-> TRUE,
                    val |-> [res |-> res, vector |-> vector,
                             number |-> number, id |-> skip_id]]
        /\ UNCHANGED <<migrated, collections, embeddings, objs, hist, okIds,
                       call>>

(* A call of similar_by_id *)
SimilarById(o, itemId, number) ==
    /\ IF similar_by_id(objs[o], collections, embeddings, itemId, number) = {}
       THEN last' = [op |-> "similar_by_id", obj |-> o, ok |-> FALSE,
                     val |-> [res |-> << >>, vector |-> <<0, 0>>,
                              number |-> number, id |-> itemId]]
       ELSE \E res \in similar_by_id(objs[o], collections, embeddings, itemId,
                                     number) :
               last' = [op |-> "similar_by_id", obj |-> o, ok |-> TRUE,
                        val |-> [res |-> res, vector |-> <<0, 0>>,
                                 number |-> number, id |-> itemId]]
    /\ UNCHANGED <<migrated, collections, embeddings, objs, hist, okIds, call>>

(* A call of similar: the text is embedded, then similar_by_vector with no *)
(* skip_id                                                                 *)
Similar(o, text, number) ==
    /\ IF ~model(objs[o]).ok
       THEN last' = [op |-> "similar", obj |-> o, ok |-> FALSE,
                     val |-> [res |-> << >>, vector |-> <<0, 0>>,
                              number |-> number, id |-> None]]
       ELSE \E res \in similar_by_vector(model(objs[o]).obj, collections,
                          embeddings, ModelEmbed(model(objs[o]).model, text),
                          number, None) :
               last' = [op |-> "similar", obj |-> o, ok |-> TRUE,
                        val |-> [res |-> res,
                                 vector |-> ModelEmbed(model(objs[o]).model, text),
                                 number |-> number, id |-> None]]
    /\ objs' = [objs EXCEPT ![o] = model(objs[o]).obj]
    /\ UNCHANGED <<migrated, collections, embeddings, hist, okIds, call>>

-----------------------------------------------------------------------------
(* The life of collections: construction, id(), model(), exists() and     *)
(* embed() over two names, with a model object or a model_id naming m2     *)
(* (registered) or mx (an identifier nothing is registered under).         *)

ModelArgs ==
    {NoModel, get_embedding_model("m2"), [model_id |-> "mx", batch_size |-> 0]}
ModelIdArgs == {None, "m2", "mx"}

Next ==
    \/ \E name \in Names, m \in ModelArgs, mid \in ModelIdArgs :
          Construct(name, m, mid)
    \/ \E o \in 1..Len(objs) : CallId(o)
    \/ \E o \in 1..Len(objs) : CallModel(o)
    \/ \E o \in 1..Len(objs) : CallExists(o)
    \/ \E o \in 1..Len(objs) : Embed(o, "a", "x", << >>, FALSE)

Spec == Init /\ [][Next]_vars

(* Counting: collections of one model under two names, items a and b     *)
(* written one at a time or by one bulk call                              *)
CountInputs ==
    {<< <<"a", "x">>, <<"b", "x">> >>, << <<"b", "x">> >>,
     << <<"a", "x">>, <<"a", "x">> >>}

NextCount ==
    \/ \E name \in Names : Construct(name, get_embedding_model("m1"), None)
    \/ \E o \in 1..Len(objs), itemId \in {"a", "b"} :
          Embed(o, itemId, "x", << >>, FALSE)
    \/ /\ call.status = "idle"
       /\ \E o \in 1..Len(objs), pairs \in CountInputs :
             EmbedMulti(o, pairs, FALSE, 0)
    \/ \E o \in 1..Len(objs) : CallCount(o)
    \/ \E o \in 1..Len(objs) : CallExists(o)

SpecCount == Init /\ [][NextCount]_vars

-----------------------------------------------------------------------------
(* The batched write path: one Collection whose model declares any of the  *)
(* batch sizes below, an optional first embed, then one bulk call (the     *)
(* variable call keeps its input and its log) over a                       *)
(* short sequence of entries (ids may repeat) or a long one (ids distinct, *)
(* and only with the batch sizes near max_batch_size and above).           *)

BatchSizes ==
    {-1, 0, max_batch_size - 1, max_batch_size, max_batch_size + 1, 1000}
        \cup 1..MaxBatch

EntryPool ==
    {<<"a", "x", << >> >>, <<"b", "y", <<{<<"k", 1>>}>> >>,
     <<"c", "z", <<{}>> >>, <<"a", "y", <<{<<"k", 1>>}>> >>,
     <<"", "w", << >> >>}

PairPool == {<<"a", "x">>, <<"b", "y">>, <<"a", "z">>}

LongEntries(n) ==
    [i \in 1..n |-> <<ToString(i), IF i % 2 = 0 THEN "x" ELSE "y",
                      IF i % 3 = 0 THEN <<{<<"k", 1>>}>> ELSE << >> >>]

LongLens == {max_batch_size, max_batch_size + 1, 2 * max_batch_size + 1}

NextBatch ==
    \/ \E bs \in BatchSizes :
          /\ objs = << >>
          /\ Construct("c1", [model_id |-> "m1", batch_size |-> bs], None)
    \/ \E o \in 1..Len(objs) :
          /\ call.status = "idle"
          /\ embeddings = {}
          /\ Embed(o, "a", "x", << >>, FALSE)
    \/ /\ call.status = "idle"
       /\ \E o \in 1..Len(objs), store \in BOOLEAN, failAt \in 0..MaxFail :
             \E entries \in SeqsUpTo(EntryPool, MaxEntries)
                               \cup {LongEntries(n) : n \in LongLens} :
                 /\ Len(entries) > MaxEntries
                       => objs[o]._model.batch_size \notin 1..MaxBatch
                 /\ EmbedMultiWithMetadata(o, entries, store, failAt)
    \/ /\ call.status = "idle"
       /\ \E o \in 1..Len(objs), store \in BOOLEAN, failAt \in 0..MaxFail :
             \E pairs \in SeqsUpTo(PairPool, MaxEntries) :
                 EmbedMulti(o, pairs, store, failAt)

SpecBatch == Init /\ [][NextBatch]_vars

-----------------------------------------------------------------------------
(* Search: one Collection per name, items with the ids "", "a" and "b",    *)
(* and the three ways of asking for neighbours.                            *)

ItemIds == {"", "a", "b"}
SimItems == {<<"", "x">>, <<"a", "y">>, <<"a", "x">>, <<"b", "z">>}
QueryVectors == {<<1, 0>>, <<1, 1>>, <<0, 0>>}
Numbers == 0..MaxNumber

NextSim ==
    \/ \E name \in Names :
          /\ \A o \in 1..Len(objs) : objs[o].name # name
          /\ Construct(name, get_embedding_model("m1"), None)
    \/ \E o \in 1..Len(objs), item \in SimItems :
          Embed(o, item[1], item[2], << >>, FALSE)
    \/ \E o \in 1..Len(objs), vector \in QueryVectors, number \in Numbers,
          skip_id \in {None, "", "a"} :
          SimilarByVector(o, vector, number, skip_id)
    \/ \E o \in 1..Len(objs), itemId \in ItemIds, number \in Numbers :
          SimilarById(o, itemId, number)
    \/ \E o \in 1..Len(objs), text \in {"x", "y"}, number \in Numbers :
          Similar(o, text, number)

SpecSim == Init /\ [][NextSim]_vars

-----------------------------------------------------------------------------
(* Properties of the life of collections *)

StoredModel(name) == collections[Min(rows_where_name(collections, name))].model

(* C1: every id() call on an object, the constructor's included, returns   *)
(* the same value; the object inserts at most one row into collections     *)
(* over its lifetime, and none when a row with its name already existed.   *)
C1_IdempotentResolution ==
    \A o \in 1..Len(objs) :
        /\ hist[o].ids = {objs[o]._id}
        /\ objs[o]._id # NoId
        /\ hist[o].inserts <= 1
        /\ hist[o].found => hist[o].inserts = 0

C1_Witness ==
    /\ last.op = "id"
    /\ hist[last.obj].inserts = 1
    /\ \E o \in 1..Len(objs) : hist[o].found /\ o # last.obj

(* C2: every stored item was embedded by a model whose identifier is the   *)
(* one stored in its collection's row.                                     *)
C2_SingleModel ==
    \A r \in embeddings : r.by = collections[r.collection_id].model

(* C8: an object opened by name with neither a model nor a model_id, on a  *)
(* name that has a row, holds the row's model identifier, and model() on   *)
(* it gives the model registered under that identifier (and fails when     *)
(* none is); a model_id the caller supplied is never replaced.             *)
C8_ModelPrecedence ==
    \A o \in 1..Len(objs) :
        /\ (hist[o].model = NoModel /\ hist[o].model_id = None /\ hist[o].found)
              => /\ objs[o]._model_id = StoredModel(objs[o].name)
                 /\ (last.op = "model" /\ last.obj = o)
                       => IF StoredModel(objs[o].name) \in Registered
                          THEN /\ last.ok
                               /\ last.val.model_id = StoredModel(objs[o].name)
                               /\ last.val =
                                    get_embedding_model(StoredModel(objs[o].name))
                          ELSE ~last.ok
        /\ hist[o].model_id # None => objs[o]._model_id = hist[o].model_id

C8_Witness ==
    /\ last.op = "model"
    /\ last.ok
    /\ hist[last.obj].model = NoModel
    /\ hist[last.obj].model_id = None
    /\ hist[last.obj].found
    /\ last.val.model_id = "m2"

(* C9: count() is the number of distinct ids whose insert into this        *)
(* collection succeeded, never more than the distinct ids stored in it,    *)
(* whatever other collections hold.                                        *)
C9_CountAccuracy ==
    /\ \A o \in 1..Len(objs) :
          LET c == count(objs[o], collections, embeddings)
          IN  /\ c = Cardinality(okIds[objs[o].name])
              /\ c <= Cardinality({r.id : r \in
                        {e \in embeddings : e.collection_id = objs[o]._id}})
    /\ last.op = "count" => last.val = Cardinality(okIds[objs[last.obj].name])

C9_Witness ==
    /\ last.op = "count"
    /\ last.val = 2
    /\ \E e \in embeddings : e.collection_id # objs[last.obj]._id

(* C10: right after a Collection is constructed for a name that had no     *)
(* row, no row with that name is stored, so exists() reports False.        *)
C10_LazyConstruct ==
    (last.op = "Collection" /\ last.ok /\ ~hist[last.obj].found)
        => ~exists(objs[last.obj], collections)

-----------------------------------------------------------------------------
(* Properties of the batched write path *)

(* The batch size the call must use: the model's if positive, capped *)
Cap(declared) ==
    IF declared > 0 /\ declared < max_batch_size THEN declared
    ELSE max_batch_size

StoredFor(pos) ==
    {r \in embeddings :
        r.collection_id = call.cid /\ r.id = call.entries[pos][1]}

(* C3: after a bulk call that completed, the one stored row of each entry  *)
(* holds the encoded vector the model gives for that entry's own text, and *)
(* that entry's own text (when stored) and metadata (when not empty); and  *)
(* a call over distinct ids, none stored before, with a model that does    *)
(* not fail, completes.                                                    *)
C3_BatchAlignment ==
    /\ call.status = "done" =>
          \A pos \in 1..Len(call.entries) :
              LET e == call.entries[pos]
              IN  /\ Cardinality(StoredFor(pos)) = 1
                  /\ \A r \in StoredFor(pos) :
                        /\ r.embedding = encode(ModelEmbed(call.model, e[2]))
                        /\ r.content = (IF call.store THEN e[2] ELSE None)
                        /\ IF e[3] # << >> /\ e[3][1] # {}
                           THEN r.metadata # None /\ loads(r.metadata) = e[3][1]
                           ELSE r.metadata = None
    /\ ( /\ call.status # "idle"
         /\ call.failAt = 0
         /\ objs[call.obj]._model.batch_size >= 0
         /\ \A i, j \in 1..Len(call.entries) :
               i # j => call.entries[i][1] # call.entries[j][1]
         /\ \A i \in 1..Len(call.entries) : \A r \in call.before :
               Key(r) # <<call.cid, call.entries[i][1]>> )
          => call.status = "done"

C3_Witness ==
    /\ call.status = "done"
    /\ call.batch_size = 2
    /\ Len(call.entries) = 3
    /\ Len(call.embedded) = 2
    /\ call.store
    /\ \E i \in 1..3 : call.entries[i][3] # << >> /\ call.entries[i][3][1] # {}

(* C4: every chunk handed to the model and every chunk handed to           *)
(* insert_all holds at least one entry and at most Cap(declared) entries,  *)
(* and exactly that many unless it is the last.                            *)
C4_BatchSizeBound ==
    call.status # "idle" =>
        LET cap == Cap(objs[call.obj]._model.batch_size)
            Bounded(chunks) ==
                \A i \in 1..Len(chunks) :
                    /\ Len(chunks[i]) >= 1
                    /\ Len(chunks[i]) <= cap
                    /\ (i < Len(chunks) \/ call.pos + Len(chunks[i]) < Len(call.entries))
                          => Len(chunks[i]) = cap
        IN  Bounded(call.embedded) /\ Bounded(call.inserted)

C4_Witness ==
    /\ call.status = "done"
    /\ objs[call.obj]._model.batch_size = 1000
    /\ Len(call.entries) = 2 * max_batch_size + 1
    /\ Len(call.inserted) = 3
    /\ Len(call.inserted[1]) = max_batch_size
    /\ Len(call.inserted[3]) = 1

(* C5: when a bulk call fails in batch k, the table holds what it held     *)
(* before plus exactly the rows of batches 1..k-1; the model was handed    *)
(* batches 1..k, each once and in order, and nothing after; the call       *)
(* reports the failure.                                                    *)
C5_BatchAtomicity ==
    call.status = "error" =>
        LET k == Len(call.embedded)
            bs == call.batch_size
            n == Len(call.entries)
            committed == IF k = 0 THEN 0 ELSE (k - 1) * bs
        IN  /\ call.before \subseteq embeddings
            /\ embeddings \ call.before =
                  {Row(call.cid, call.entries[p][1],
                       ModelEmbed(call.model, call.entries[p][2]),
                       call.entries[p][2], call.entries[p][3], call.store,
                       call.model) : p \in 1..committed}
            /\ Cardinality(embeddings \ call.before) = committed
            /\ \A i \in 1..k :
                  call.embedded[i] =
                      [j \in 1..(IF n - (i - 1) * bs < bs
                                 THEN n - (i - 1) * bs ELSE bs)
                          |-> (i - 1) * bs + j]
            /\ Len(call.inserted) \in {k - 1, k}
            /\ ~last.ok

C5_Witness ==
    /\ call.status = "error"
    /\ call.failAt = 0
    /\ call.batch_size = 1
    /\ Len(call.entries) = 3
    /\ Len(call.embedded) = 2
    /\ Len(call.inserted) = 2
    /\ call.before # {}

-----------------------------------------------------------------------------
(* Properties of the search *)

(* C6: similar_by_id(q, number) returns no entry whose id is q *)
C6_SelfExclusion ==
    (last.op = "similar_by_id" /\ last.ok)
        => \A i \in 1..Len(last.val.res) : last.val.res[i].id # last.val.id

(* C7: similar_by_vector(vector, number, skip_id) with number >= 1 returns *)
(* min(number, m) entries, m the number of this collection's items other   *)
(* than skip_id; each is an item of this collection with its score; the    *)
(* scores do not increase; no item left out scores above a returned one.   *)
C7_RankingAndLimit ==
    (last.op = "similar_by_vector" /\ last.val.number >= 1) =>
        LET res == last.val.res
            mine == {r \in embeddings :
                        /\ r.collection_id = objs[last.obj]._id
                        /\ r.id # last.val.id}
            m == Cardinality(mine)
            out == {r \in mine : \A i \in 1..Len(res) : res[i].id # r.id}
        IN  /\ Len(res) = IF last.val.number < m THEN last.val.number ELSE m
            /\ \A i \in 1..Len(res) : \E r \in mine :
                  /\ r.id = res[i].id
                  /\ res[i].score = distance_score(r.embedding, last.val.vector)
            /\ \A i, j \in 1..Len(res) :
                  i < j => ScoreGE(res[i].score, res[j].score)
            /\ \A r \in out : \A i \in 1..Len(res) :
                  ScoreGE(res[i].score,
                          distance_score(r.embedding, last.val.vector))

=============================================================================
